---- MODULE Spec2Model ----
(***************************************************************************)
(* fetchTopLanguages (src/fetchers/top-languages-fetcher.js): the          *)
(* aggregation, normalisation, weighting and ranking of the language edges *)
(* of a user's repositories, with its error paths.                         *)
(*                                                                         *)
(* JavaScript values that may be undefined are modelled as sequences of    *)
(* length at most one: <<>> is undefined, <<v>> is the value v.            *)
(* An object literal used as an ordered dictionary is modelled as the      *)
(* sequence of its values in key insertion order.                          *)
(***************************************************************************)
EXTENDS Integers, Sequences, FiniteSets, TLC

VARIABLES
    username,      \* argument: <<>> (absent) or <<string>>
    exclude_repo,  \* argument: sequence of repository names
    size_weight,   \* argument
    count_weight,  \* argument
    res,           \* the upstream response: [errors, nodes, statusText]
    nodesBefore,   \* history: res.nodes as the retryer delivered it
    pc,            \* position in fetchTopLanguages
    fetchCalls,    \* number of retryer(fetcher, ...) invocations
    logged,        \* what logger.error received, in order
    thrown,        \* <<>> or <<error>>: the error the call rejected with
    repoToHide,    \* own keys of the repoToHide object
    repoNodes,     \* repoNodes after the sort/filter of lines 110-112
    edges,         \* the flattened edge list of lines 117-119
    visited,       \* number of edges the aggregating reduce has consumed
    repoCount,     \* the shared counter of line 114
    langStats,     \* repoNodes after line 143: the language objects, in key order
    aggregated,    \* history: langStats as it was before the weighting loop
    topLangs       \* <<>> or <<mapping>>: the value returned

vars == << username, exclude_repo, size_weight, count_weight, res, nodesBefore,
           pc, fetchCalls, logged, thrown, repoToHide, repoNodes, edges,
           visited, repoCount, langStats, aggregated, topLangs >>

----------------------------------------------------------------------------
(* Bounds of the model *)

MaxRepos == 2

MaxEdges == 3

MaxVisits == 4

MaxRankRepos == 3

MaxSize == 2

MaxWeight == 2

----------------------------------------------------------------------------
(* JavaScript helpers *)

None == <<>>

Some(v) == <<v>>

\* ToBoolean of an optional string: undefined and "" are falsy.
Truthy(opt) == opt # None /\ opt[1] # ""

Range(s) == { s[i] : i \in 1..Len(s) }

RECURSIVE SeqsUpTo(_, _)
SeqsUpTo(S, n) ==
    IF n = 0 THEN { <<>> }
    ELSE SeqsUpTo(S, n - 1) \cup [1..n -> S]

RECURSIVE SumSeq(_)
SumSeq(s) == IF s = <<>> THEN 0 ELSE Head(s) + SumSeq(Tail(s))

\* Math.pow on non-negative integers with a non-negative integer exponent;
\* Math.pow(x, 0) is 1 for every x, 0 included.
RECURSIVE Pow(_, _)
Pow(b, e) == IF e = 0 THEN 1 ELSE b * Pow(b, e - 1)

\* Array.prototype.sort(compare): a stable sort (ECMAScript 2019); x goes
\* before y when compare(x, y) < 0, and a NaN result counts as 0. The
\* comparator is given as the function compare[<<x, y>>] on the elements.
RECURSIVE InsertSorted(_, _, _)
InsertSorted(sorted, x, compare) ==
    IF sorted = <<>> THEN << x >>
    ELSE IF compare[<< x, Head(sorted) >>] < 0 THEN << x >> \o sorted
    ELSE << Head(sorted) >> \o InsertSorted(Tail(sorted), x, compare)

RECURSIVE StableSort(_, _)
StableSort(s, compare) ==
    IF s = <<>> THEN <<>>
    ELSE InsertSorted(StableSort(SubSeq(s, 1, Len(s) - 1), compare), s[Len(s)], compare)

----------------------------------------------------------------------------
(* The inputs: arguments of the call and the upstream response *)

PythonColor == "#3572A5"

Edge(n, c, sz) == [size |-> sz, node |-> [name |-> n, color |-> c]]

\* Edges of the structural inputs (names, exclusion, repository sizes).
StructEdges ==
    { Edge("Python", PythonColor, 1),
      Edge("Jupyter Notebook", "#DA5B0B", 2),
      Edge("JavaScript", "#f1e05a", 1) }

\* Edges of the inputs that exercise the shared counter and the colors.
CountEdges ==
    { Edge("Python", PythonColor, 1),
      Edge("Jupyter Notebook", "#DA5B0B", 2),
      Edge("JavaScript", "#f1e05a", 1),
      Edge("JavaScript", "#2b7489", 2) }

LangColor(n) ==
    CASE n = "Python" -> PythonColor
      [] n = "JavaScript" -> "#f1e05a"
      [] OTHER -> "#00ADD8"

\* Edges of the inputs that exercise the weighting and the ranking.
RankEdges ==
    { Edge(n, LangColor(n), sz) : n \in { "Python", "JavaScript", "Go" }, sz \in 1..MaxSize }

Weights == 0..MaxWeight

NamesPlain == << "A", "B", "C", "D", "E", "F" >>

NamesProto == << "A", "constructor", "B", "C", "D", "E" >>

\* The language query of lines 29-41 asks for no repository size, so either
\* no repository carries one ("none") or, had the query asked, all do.
SizeProfiles == { "none", "asc", "eq" }

SizeOf(profile, i) ==
    CASE profile = "none" -> None
      [] profile = "asc" -> Some(i)
      [] OTHER -> Some(1)

ExcludeLists == { None, Some(<< >>), Some(<< "A" >>), Some(<< "B", "Z" >>) }

\* Sequences of exactly r edge lists over E holding at most k edges together.
RECURSIVE EdgeLists(_, _, _)
EdgeLists(E, r, k) ==
    IF r = 0 THEN { <<>> }
    ELSE UNION { { << l >> \o rest : rest \in EdgeLists(E, r - 1, k - Len(l)) } :
                 l \in SeqsUpTo(E, k) }

MakeNodes(names, profile, lists) ==
    [ i \in 1..Len(lists) |->
        [ name |-> names[i], size |-> SizeOf(profile, i), languages |-> lists[i] ] ]

Responses(E, maxRepos, maxEdges, nameLists, profiles) ==
    { MakeNodes(names, profile, lists) :
        names \in nameLists, profile \in profiles,
        lists \in UNION { EdgeLists(E, r, maxEdges) : r \in 0..maxRepos } }

ErrorPayloads ==
    [ type : { None, Some("NOT_FOUND"), Some("FORBIDDEN") },
      message : { None, Some(""), Some("Bad credentials") } ]

Success(nodes) == [ errors |-> None, nodes |-> nodes, statusText |-> "OK" ]

Failure(errs) == [ errors |-> Some(errs), nodes |-> <<>>, statusText |-> "OK" ]

InitLocals ==
    /\ nodesBefore = res.nodes
    /\ pc = "start"
    /\ fetchCalls = 0
    /\ logged = <<>>
    /\ thrown = None
    /\ repoToHide = {}
    /\ repoNodes = <<>>
    /\ edges = <<>>
    /\ visited = 0
    /\ repoCount = 0
    /\ langStats = <<>>
    /\ aggregated = <<>>
    /\ topLangs = None

\* Calls without a usable username, and calls whose response carries errors.
InitFailing ==
    /\ username \in { None, Some(""), Some("octocat") }
    /\ exclude_repo = Some(<<>>)
    /\ size_weight = 1
    /\ count_weight = 0
    /\ res \in { Success(<<>>), Failure(<<>>) } \cup { Failure(<< e >>) : e \in ErrorPayloads }
    /\ InitLocals

InitStruct ==
    /\ username = Some("octocat")
    /\ exclude_repo \in ExcludeLists
    /\ size_weight = 1
    /\ count_weight = 0
    /\ res \in { Success(n) :
                 n \in Responses(StructEdges, MaxRepos, MaxEdges,
                                 { NamesPlain, NamesProto }, SizeProfiles) }
    /\ InitLocals

InitCount ==
    /\ username = Some("octocat")
    /\ exclude_repo = Some(<<>>)
    /\ size_weight = 1
    /\ count_weight = 0
    /\ res \in { Success(n) :
                 n \in Responses(CountEdges, MaxRepos, MaxVisits,
                                 { NamesPlain }, { "none", "asc" }) }
    /\ InitLocals

\* One repository per edge.
InitRank ==
    /\ username = Some("octocat")
    /\ exclude_repo = Some(<<>>)
    /\ size_weight \in Weights
    /\ count_weight \in Weights
    /\ res \in { Success(MakeNodes(NamesPlain, "none", [ i \in 1..Len(l) |-> << l[i] >> ])) :
                 l \in SeqsUpTo(RankEdges, MaxRankRepos) }
    /\ InitLocals

----------------------------------------------------------------------------
(* fetchTopLanguages, statement by statement *)

MissingParamError == [ class |-> "MissingParamError", type |-> "MISSING_PARAM",
                       message |-> << "username" >> ]

CustomError(message, type) == [ class |-> "CustomError", type |-> type, message |-> message ]

\* Reading errors[0].type of an empty errors array.
TypeError == [ class |-> "TypeError", type |-> "TypeError", message |-> <<>> ]

\* wrapTextMultiline(message, 90, 1)[0]: the first wrapped line, left uninterpreted.
WrappedFirstLine(message) == << "wrapTextMultiline(90,1)[0]", message >>

\* Lines 73-75.
CheckUsername ==
    /\ pc = "start"
    /\ IF ~Truthy(username)
       THEN /\ thrown' = Some(MissingParamError)
            /\ pc' = "failed"
       ELSE /\ pc' = "fetch"
            /\ UNCHANGED thrown
    /\ UNCHANGED << username, exclude_repo, size_weight, count_weight, res, nodesBefore,
                    fetchCalls, logged, repoToHide, repoNodes, edges, visited,
                    repoCount, langStats, aggregated, topLangs >>

\* Line 77: the retryer is invoked and delivers the response.
Fetch ==
    /\ pc = "fetch"
    /\ fetchCalls' = fetchCalls + 1
    /\ pc' = "response"
    /\ UNCHANGED << username, exclude_repo, size_weight, count_weight, res, nodesBefore,
                    logged, thrown, repoToHide, repoNodes, edges, visited,
                    repoCount, langStats, aggregated, topLangs >>

\* Lines 79-80 without the call of logger.error.
LogErrors_Silent ==
    /\ pc = "response"
    /\ pc' = IF res.errors # None THEN "classify" ELSE "exclude"
    /\ UNCHANGED << username, exclude_repo, size_weight, count_weight, res, nodesBefore,
                    fetchCalls, logged, thrown, repoToHide, repoNodes, edges, visited,
                    repoCount, langStats, aggregated, topLangs >>

\* Lines 79-80: an errors array, even an empty one, is truthy and is logged.
LogErrors ==
    /\ pc = "response"
    /\ IF res.errors # None
       THEN /\ logged' = Append(logged, res.errors[1])
            /\ pc' = "classify"
       ELSE /\ pc' = "exclude"
            /\ UNCHANGED logged
    /\ UNCHANGED << username, exclude_repo, size_weight, count_weight, res, nodesBefore,
                    fetchCalls, thrown, repoToHide, repoNodes, edges, visited,
                    repoCount, langStats, aggregated, topLangs >>

\* Lines 81-96 with the message test ahead of the type test.
ErrorFor_MessageFirst(errors, statusText) ==
    IF errors = <<>> THEN TypeError
    ELSE IF Truthy(errors[1].message)
    THEN CustomError(WrappedFirstLine(errors[1].message[1]), statusText)
    ELSE IF errors[1].type = Some("NOT_FOUND")
    THEN CustomError(<< "Could not fetch user." >>, "USER_NOT_FOUND")
    ELSE CustomError(<< "Something went wrong while trying to retrieve the language data using the GraphQL API." >>,
                     "GRAPHQL_ERROR")

\* Lines 81-96: the error thrown for res.data.errors.
ErrorFor(errors, statusText) ==
    IF errors = <<>> THEN TypeError
    ELSE IF errors[1].type = Some("NOT_FOUND")
    THEN CustomError(IF Truthy(errors[1].message) THEN << errors[1].message[1] >>
                     ELSE << "Could not fetch user." >>,
                     "USER_NOT_FOUND")
    ELSE IF Truthy(errors[1].message)
    THEN CustomError(WrappedFirstLine(errors[1].message[1]), statusText)
    ELSE CustomError(<< "Something went wrong while trying to retrieve the language data using the GraphQL API." >>,
                     "GRAPHQL_ERROR")

ThrowError ==
    /\ pc = "classify"
    /\ thrown' = Some(ErrorFor(res.errors[1], res.statusText))
    /\ pc' = "failed"
    /\ UNCHANGED << username, exclude_repo, size_weight, count_weight, res, nodesBefore,
                    fetchCalls, logged, repoToHide, repoNodes, edges, visited,
                    repoCount, langStats, aggregated, topLangs >>

\* Keys every object literal inherits from Object.prototype; reading one of
\* them from {} yields a function (or the prototype), which is truthy.
ObjectPrototypeKeys ==
    { "constructor", "toString", "toLocaleString", "valueOf", "hasOwnProperty",
      "isPrototypeOf", "propertyIsEnumerable", "__proto__", "__defineGetter__",
      "__defineSetter__", "__lookupGetter__", "__lookupSetter__" }

\* Lines 100-107: the own keys set to true.
HideKeys(exclude) == IF exclude # None THEN Range(exclude[1]) ELSE {}

\* The filter of line 112 without its negation.
Hidden_Negated(hide, name) == ~(name \in hide \/ name \in ObjectPrototypeKeys)

\* Line 112: repoToHide[repo.name] is truthy.
Hidden(hide, name) == name \in hide \/ name \in ObjectPrototypeKeys

\* Line 111: (a, b) => b.size - a.size; undefined sizes give NaN, which sort reads as 0.
RepoCompare(a, b) ==
    IF a.size = None \/ b.size = None THEN 0 ELSE b.size[1] - a.size[1]

SortRepos(nodes) ==
    StableSort(nodes, [ p \in Range(nodes) \X Range(nodes) |-> RepoCompare(p[1], p[2]) ])

FilterHidden(nodes, hide) == SelectSeq(nodes, LAMBDA repo : ~Hidden(hide, repo.name))

\* Lines 99-112. Array.prototype.sort sorts res.data.data.user.repositories.nodes
\* itself; filter then builds a new array.
ExcludeRepos ==
    /\ pc = "exclude"
    /\ repoToHide' = HideKeys(exclude_repo)
    /\ res' = [ res EXCEPT !.nodes = SortRepos(res.nodes) ]
    /\ repoNodes' = FilterHidden(SortRepos(res.nodes), HideKeys(exclude_repo))
    /\ pc' = "flatten"
    /\ UNCHANGED << username, exclude_repo, size_weight, count_weight, nodesBefore,
                    fetchCalls, logged, thrown, edges, visited,
                    repoCount, langStats, aggregated, topLangs >>

\* Line 119: reduce((acc, curr) => curr.languages.edges.concat(acc), []).
RECURSIVE ConcatReduce(_, _)
ConcatReduce(nodes, acc) ==
    IF nodes = <<>> THEN acc
    ELSE ConcatReduce(Tail(nodes), Head(nodes).languages \o acc)

\* Lines 118-119.
FlattenEdges(nodes) ==
    ConcatReduce(SelectSeq(nodes, LAMBDA node : Len(node.languages) > 0), <<>>)

\* Lines 114-119.
Flatten ==
    /\ pc = "flatten"
    /\ repoCount' = 0
    /\ edges' = FlattenEdges(repoNodes)
    /\ visited' = 0
    /\ pc' = "aggregate"
    /\ UNCHANGED << username, exclude_repo, size_weight, count_weight, res, nodesBefore,
                    fetchCalls, logged, thrown, repoToHide, repoNodes,
                    langStats, aggregated, topLangs >>

\* Line 122.
NormalizedName(name) == IF name = "Jupyter Notebook" THEN "Python" ELSE name

\* Line 123 without the Python override.
NormalizedColor_FromEdge(normalizedName, color) == color

\* Line 123.
NormalizedColor(normalizedName, color) ==
    IF normalizedName = "Python" THEN PythonColor ELSE color

\* acc[name] is truthy: name is a key of acc.
Has(acc, name) == \E i \in 1..Len(acc) : acc[i].name = name

Get(acc, name) == acc[CHOOSE i \in 1..Len(acc) : acc[i].name = name]

\* Lines 134-142 with the key deleted before it is set: it moves to the end.
Put_MoveToEnd(acc, value) ==
    Append(SelectSeq(acc, LAMBDA e : e.name # value.name), value)

\* Lines 134-142: { ...acc, [key]: value }. An existing key keeps its place.
Put(acc, value) ==
    IF Has(acc, value.name)
    THEN [ i \in 1..Len(acc) |-> IF acc[i].name = value.name THEN value ELSE acc[i] ]
    ELSE Append(acc, value)

\* Lines 127-132 with one counter per language.
NextRepoCount_PerLanguage(acc, name, count) ==
    IF \E i \in 1..Len(acc) : acc[i].name = name
    THEN acc[CHOOSE i \in 1..Len(acc) : acc[i].name = name].count + 1
    ELSE 1

\* Lines 127-132: the counter after the edge named name.
NextRepoCount(acc, name, count) == IF Has(acc, name) THEN count + 1 ELSE 1

\* Lines 125-128.
LangSize(acc, name, size) == IF Has(acc, name) THEN size + Get(acc, name).size ELSE size

\* Lines 120-143: one call of the aggregating reducer; the accumulator it
\* returns and the counter it leaves behind.
Reducer(acc, count, prev) ==
    LET normalizedName == NormalizedName(prev.node.name)
        normalizedColor == NormalizedColor(normalizedName, prev.node.color)
    IN [ acc |-> Put(acc, [ name |-> normalizedName,
                            color |-> normalizedColor,
                            size |-> LangSize(acc, normalizedName, prev.size),
                            count |-> NextRepoCount(acc, normalizedName, count) ]),
         repoCount |-> NextRepoCount(acc, normalizedName, count) ]

AggregateEdge ==
    /\ pc = "aggregate"
    /\ visited < Len(edges)
    /\ langStats' = Reducer(langStats, repoCount, edges[visited + 1]).acc
    /\ repoCount' = Reducer(langStats, repoCount, edges[visited + 1]).repoCount
    /\ visited' = visited + 1
    /\ UNCHANGED << username, exclude_repo, size_weight, count_weight, res, nodesBefore,
                    pc, fetchCalls, logged, thrown, repoToHide, repoNodes, edges,
                    aggregated, topLangs >>

\* Lines 120-143: the whole reduce, from {} and the counter of line 114.
RECURSIVE ReduceEdges(_, _, _)
ReduceEdges(list, acc, count) ==
    IF list = <<>> THEN acc
    ELSE ReduceEdges(Tail(list), Reducer(acc, count, Head(list)).acc,
                     Reducer(acc, count, Head(list)).repoCount)

\* Lines 147-149 with the two weights exchanged.
WeightedSize_Swapped(size, count, sw, cw) == Pow(size, cw) * Pow(count, sw)

\* Lines 147-149.
WeightedSize(size, count, sw, cw) == Pow(size, sw) * Pow(count, cw)

\* Lines 146-150: every language object gets its weighted size, in place.
WeightAll(m, sw, cw) ==
    [ i \in 1..Len(m) |->
        [ m[i] EXCEPT !.size = WeightedSize(m[i].size, m[i].count, sw, cw) ] ]

Weighting ==
    /\ pc = "aggregate"
    /\ visited = Len(edges)
    /\ aggregated' = langStats
    /\ langStats' = WeightAll(langStats, size_weight, count_weight)
    /\ pc' = "rank"
    /\ UNCHANGED << username, exclude_repo, size_weight, count_weight, res, nodesBefore,
                    fetchCalls, logged, thrown, repoToHide, repoNodes, edges, visited,
                    repoCount, topLangs >>

\* Object.keys of the mapping: its keys in insertion order.
Keys(m) == [ i \in 1..Len(m) |-> m[i].name ]

\* Line 154 with the operands exchanged: an ascending order.
RankCompare_Ascending(m, a, b) ==
    m[CHOOSE i \in 1..Len(m) : m[i].name = a].size
        - m[CHOOSE i \in 1..Len(m) : m[i].name = b].size

\* Line 154: (a, b) => repoNodes[b].size - repoNodes[a].size.
RankCompare(m, a, b) == Get(m, b).size - Get(m, a).size

\* Lines 153-158: the keys sorted, then inserted one by one into the result.
RankLangs(m) ==
    LET compare == [ p \in Range(Keys(m)) \X Range(Keys(m)) |-> RankCompare(m, p[1], p[2]) ]
        sorted == StableSort(Keys(m), compare)
    IN [ i \in 1..Len(sorted) |-> Get(m, sorted[i]) ]

\* Lines 153-160.
Rank ==
    /\ pc = "rank"
    /\ topLangs' = Some(RankLangs(langStats))
    /\ pc' = "done"
    /\ UNCHANGED << username, exclude_repo, size_weight, count_weight, res, nodesBefore,
                    fetchCalls, logged, thrown, repoToHide, repoNodes, edges, visited,
                    repoCount, langStats, aggregated >>

\* Lines 99-160 as one function of the response and the arguments.
TopLanguagesOf(nodes, exclude, sw, cw) ==
    RankLangs(WeightAll(ReduceEdges(FlattenEdges(FilterHidden(SortRepos(nodes),
                                                              HideKeys(exclude))),
                                    <<>>, 0),
                        sw, cw))

Next ==
    \/ CheckUsername
    \/ Fetch
    \/ LogErrors
    \/ ThrowError
    \/ ExcludeRepos
    \/ Flatten
    \/ AggregateEdge
    \/ Weighting
    \/ Rank

Init == InitFailing \/ InitStruct

Spec == Init /\ [][Next]_vars

InitOfCount == InitFailing \/ InitCount

SpecCount == InitOfCount /\ [][Next]_vars

InitOfRank == InitFailing \/ InitRank

SpecRank == InitOfRank /\ [][Next]_vars

----------------------------------------------------------------------------
(* What the claims speak of, stated from the inputs *)

\* The canonical language name.
Canon(n) == IF n = "Jupyter Notebook" THEN "Python" ELSE n

ExcludedNames == IF exclude_repo = None THEN {} ELSE Range(exclude_repo[1])

\* The repositories of the response the caller did not exclude.
Kept == { r \in 1..Len(nodesBefore) : nodesBefore[r].name \notin ExcludedNames }

\* The sum of the sizes of the edges of one repository with canonical name lang.
RepoLangSize(repo, lang) ==
    SumSeq([ j \in 1..Len(repo.languages) |->
               IF Canon(repo.languages[j].node.name) = lang
               THEN repo.languages[j].size ELSE 0 ])

KeptLangSize(lang) ==
    SumSeq([ r \in 1..Len(nodesBefore) |->
               IF r \in Kept THEN RepoLangSize(nodesBefore[r], lang) ELSE 0 ])

KeptLangs ==
    UNION { { Canon(nodesBefore[r].languages[j].node.name) :
                j \in 1..Len(nodesBefore[r].languages) } : r \in Kept }

Aggregated == pc \in { "rank", "done" }

----------------------------------------------------------------------------
\* C1: before weighting, the languages aggregated are exactly the canonical
\* names of the edges of the repositories whose name is not in exclude_repo,
\* and the size stored for each is the sum of the sizes of those edges.
C1_SumOverKeptRepos ==
    Aggregated =>
        /\ Range(Keys(aggregated)) = KeptLangs
        /\ \A i \in 1..Len(aggregated) :
               aggregated[i].size = KeptLangSize(aggregated[i].name)

\* The exclude_repo entries that name a repository of the response.
ExistingOnly(exclude) ==
    IF exclude = None THEN None
    ELSE Some(SelectSeq(exclude[1],
                        LAMBDA n : \E r \in 1..Len(nodesBefore) : nodesBefore[r].name = n))

\* C2: a language whose edges all belong to repositories named in
\* exclude_repo is not a key of the result, and the result is the one the
\* call gives without the exclude_repo entries that name no repository.
C2_ExcludedLanguagesAbsent ==
    pc = "done" =>
        /\ \A i \in 1..Len(topLangs[1]) : topLangs[1][i].name \in KeptLangs
        /\ topLangs[1] = TopLanguagesOf(nodesBefore, ExistingOnly(exclude_repo),
                                        size_weight, count_weight)

\* A call that returned, whose exclude_repo names a repository that holds a
\* language of its own as well as a repository that does not exist.
C2_Witness ==
    /\ pc = "done"
    /\ topLangs[1] # <<>>
    /\ ExistingOnly(exclude_repo) # exclude_repo
    /\ \E r \in 1..Len(nodesBefore) :
           /\ r \notin Kept
           /\ \E j \in 1..Len(nodesBefore[r].languages) :
                  Canon(nodesBefore[r].languages[j].node.name) \notin KeptLangs

\* C8: when the call has ended, the repository list of the response holds
\* the same repository records in the same order as the upstream delivered
\* them, with or without sizes (no step assigns exclude_repo).
C8_InputUnchanged ==
    pc \in { "done", "failed" } => res.nodes = nodesBefore

----------------------------------------------------------------------------
(* The order of the visit, and what it leaves behind *)

\* The position of the last edge of list with canonical name lang.
LastVisit(list, lang) ==
    CHOOSE i \in 1..Len(list) :
        /\ Canon(list[i].node.name) = lang
        /\ \A j \in (i + 1)..Len(list) : Canon(list[j].node.name) # lang

\* The position of the first edge of list with canonical name lang.
FirstVisit(list, lang) ==
    CHOOSE i \in 1..Len(list) :
        /\ Canon(list[i].node.name) = lang
        /\ \A j \in 1..(i - 1) : Canon(list[j].node.name) # lang

\* The sum of the sizes of the edges of list with canonical name lang.
VisitedSize(list, lang) ==
    SumSeq([ j \in 1..Len(list) |->
               IF Canon(list[j].node.name) = lang THEN list[j].size ELSE 0 ])

\* C3: the returned mapping has no key "Jupyter Notebook"; the edges of that
\* name are summed into the "Python" entry, whose color is "#3572A5"; every
\* other entry has the color of the last visited edge of its language.
C3_JupyterFoldedIntoPython ==
    pc = "done" =>
        \A i \in 1..Len(topLangs[1]) :
            LET e == topLangs[1][i] IN
            /\ e.name # "Jupyter Notebook"
            /\ e.name \in { Canon(edges[j].node.name) : j \in 1..Len(edges) }
            /\ e.name = "Python" =>
                   /\ e.color = "#3572A5"
                   /\ Get(aggregated, "Python").size = VisitedSize(edges, "Python")
            /\ e.name # "Python" =>
                   e.color = edges[LastVisit(edges, e.name)].node.color

\* A returned mapping whose Python entry was fed by a "Jupyter Notebook" edge
\* and by a "Python" edge, beside a language visited with two colors.
C3_Witness ==
    /\ pc = "done"
    /\ \E j, k \in 1..Len(edges) :
           /\ edges[j].node.name = "Jupyter Notebook"
           /\ edges[k].node.name = "Python"
    /\ \E j, k \in 1..Len(edges) :
           /\ edges[j].node.name = edges[k].node.name
           /\ edges[j].node.color # edges[k].node.color
    /\ \E i \in 1..Len(topLangs[1]) : topLangs[1][i].name = "Python"

\* The edges of the repositories, last repository first.
RECURSIVE LastRepoFirst(_)
LastRepoFirst(nodes) ==
    IF nodes = <<>> THEN <<>>
    ELSE LastRepoFirst(Tail(nodes)) \o Head(nodes).languages

\* The shared counter after the i-th visit: 1 after an edge that opens a
\* language, one more than before after an edge that extends one.
RECURSIVE CounterAfter(_, _)
CounterAfter(list, i) ==
    IF i = 0 THEN 0
    ELSE IF \E j \in 1..(i - 1) : Canon(list[j].node.name) = Canon(list[i].node.name)
    THEN CounterAfter(list, i - 1) + 1
    ELSE 1

\* C5: the edges are visited repository by repository, the last repository
\* of the pre-sorted list first, and the count of each language of the
\* output is the value of the shared counter after the last visit of an edge
\* of that language.
C5_SharedCounter ==
    pc = "done" =>
        /\ edges = LastRepoFirst(repoNodes)
        /\ \A i, j \in 1..Len(repoNodes) :
               (i < j /\ repoNodes[i].size # None /\ repoNodes[j].size # None)
                   => repoNodes[i].size[1] >= repoNodes[j].size[1]
        /\ \A i \in 1..Len(topLangs[1]) :
               topLangs[1][i].count =
                   CounterAfter(edges, LastVisit(edges, topLangs[1][i].name))

\* The number of edges of list with canonical name lang.
VisitCount(list, lang) ==
    Cardinality({ j \in 1..Len(list) : Canon(list[j].node.name) = lang })

\* A returned mapping in which the count of a language is not the number of
\* its edges, from repositories the pre-sort reordered.
C5_Witness ==
    /\ pc = "done"
    /\ res.nodes # nodesBefore
    /\ \E i \in 1..Len(topLangs[1]) :
           topLangs[1][i].count # VisitCount(edges, topLangs[1][i].name)

----------------------------------------------------------------------------
\* C4: the returned mapping holds the weighted language objects, and each
\* of its entries is at least as large as the entry that follows it.
C4_NonIncreasingOrder ==
    pc = "done" =>
        /\ Len(topLangs[1]) = Len(langStats)
        /\ Range(topLangs[1]) = Range(langStats)
        /\ \A i \in 1..(Len(topLangs[1]) - 1) :
               topLangs[1][i].size >= topLangs[1][i + 1].size

\* A returned mapping of several sizes whose order is not the order in which
\* the languages were created, under weights other than the defaults.
C4_Witness ==
    /\ pc = "done"
    /\ Len(topLangs[1]) >= 2
    /\ Keys(topLangs[1]) # Keys(aggregated)
    /\ topLangs[1][1].size > topLangs[1][Len(topLangs[1])].size
    /\ size_weight # 1
    /\ count_weight # 0

\* The sizes and counts the weighting can meet.
SizeDomain == 0..(MaxSize * MaxRankRepos)

CountDomain == 1..MaxRankRepos

\* For every count, the weighted size does not decrease from one size to
\* the next, hence from any size to any larger one.
Monotone(sw, cw) ==
    \A s \in SizeDomain, c \in CountDomain :
        WeightedSize(s, c, sw, cw) <= WeightedSize(s + 1, c, sw, cw)

\* C9: the weighting sets the size of each entry to
\* size^size_weight * count^count_weight and leaves the rest of the entry;
\* for a fixed count the weighted size does not decrease when the size
\* grows; with size_weight = 1 and count_weight = 0 it is the size itself.
C9_Weighting ==
    pc = "rank" =>
        /\ Len(langStats) = Len(aggregated)
        /\ \A i \in 1..Len(aggregated) :
               /\ langStats[i].size =
                      Pow(aggregated[i].size, size_weight)
                          * Pow(aggregated[i].count, count_weight)
               /\ langStats[i].name = aggregated[i].name
               /\ langStats[i].count = aggregated[i].count
               /\ langStats[i].color = aggregated[i].color
        /\ \A i, j \in 1..Len(aggregated) :
               (aggregated[i].count = aggregated[j].count
                    /\ aggregated[i].size <= aggregated[j].size)
                   => langStats[i].size <= langStats[j].size
        /\ Monotone(size_weight, count_weight)
        /\ (size_weight = 1 /\ count_weight = 0) =>
               \A i \in 1..Len(aggregated) : langStats[i].size = aggregated[i].size

\* The weighting has acted, under a size weight above 1 and a count weight
\* above 0, on an entry of count 2 or more beside a smaller entry.
C9_Witness ==
    /\ pc = "rank"
    /\ size_weight > 1
    /\ count_weight > 0
    /\ \E i, j \in 1..Len(aggregated) :
           /\ aggregated[i].count > 1
           /\ aggregated[j].size > 1
           /\ aggregated[j].size < aggregated[i].size
           /\ langStats[j].size < langStats[i].size
           /\ langStats[i].size > aggregated[i].size

\* C10: of two languages of equal weighted size, the one whose entry was
\* created first comes first in the returned mapping.
C10_TiesInCreationOrder ==
    pc = "done" =>
        \A i, j \in 1..Len(topLangs[1]) :
            (i < j /\ topLangs[1][i].size = topLangs[1][j].size)
                => FirstVisit(edges, topLangs[1][i].name)
                       < FirstVisit(edges, topLangs[1][j].name)

\* A returned mapping with two languages of equal weighted size, the first
\* of which was extended after the second was created, behind a larger one.
C10_Witness ==
    /\ pc = "done"
    /\ \E i, j \in 1..Len(topLangs[1]) :
           /\ i < j
           /\ topLangs[1][i].size = topLangs[1][j].size
           /\ LastVisit(edges, topLangs[1][i].name)
                  > FirstVisit(edges, topLangs[1][j].name)

----------------------------------------------------------------------------
\* The first entry of the errors array of the response.
Payload == res.errors[1][1]

HasPayload == res.errors # None /\ res.errors[1] # <<>>

\* C6: a call that received a response with an error payload returns no mapping
\* and ends with one error: USER_NOT_FOUND, with the message of the payload
\* or "Could not fetch user.", when the type of the payload is "NOT_FOUND";
\* otherwise an error typed by the status text of the response when the
\* payload has a non-empty message; otherwise GRAPHQL_ERROR.
C6_ErrorChosen ==
    (HasPayload /\ fetchCalls > 0) =>
        /\ topLangs = None
        /\ pc \in { "response", "classify", "failed" }
        /\ pc = "failed" =>
               /\ thrown # None
               /\ thrown[1].class = "CustomError"
               /\ IF Payload.type = Some("NOT_FOUND")
                  THEN /\ thrown[1].type = "USER_NOT_FOUND"
                       /\ thrown[1].message =
                              IF Payload.message \in { None, Some("") }
                              THEN << "Could not fetch user." >>
                              ELSE Payload.message
                  ELSE IF Payload.message \notin { None, Some("") }
                  THEN /\ thrown[1].type = res.statusText
                       /\ thrown[1].type \notin { "USER_NOT_FOUND", "GRAPHQL_ERROR" }
                  ELSE thrown[1].type = "GRAPHQL_ERROR"

\* A call that ended on a "NOT_FOUND" payload that carries a message.
C6_Witness ==
    /\ pc = "failed"
    /\ HasPayload
    /\ Payload.type = Some("NOT_FOUND")
    /\ Payload.message = Some("Bad credentials")
    /\ thrown[1].type = "USER_NOT_FOUND"

\* What holds in every state of a call for C7.
C7_State ==
    /\ (username \in { None, Some("") }) =>
           /\ fetchCalls = 0
           /\ pc \in { "start", "failed" }
           /\ pc = "failed" => thrown = Some(MissingParamError)
    /\ (thrown # None /\ thrown[1].class # "MissingParamError") =>
           /\ res.errors # None
           /\ logged = << res.errors[1] >>
    /\ res.errors # None =>
           /\ visited = 0
           /\ repoToHide = {}
           /\ repoNodes = <<>>
           /\ edges = <<>>
           /\ langStats = <<>>
           /\ topLangs = None

\* The step that raises the error of a response starts from a state in
\* which the payload is logged.
C7_Step ==
    (thrown = None /\ thrown' # None /\ res.errors # None /\ fetchCalls > 0)
        => logged = << res.errors[1] >>

\* C7: without a username the call ends with MissingParamError and the
\* retryer is never invoked; when the response carries errors, they are
\* logged before the error is raised and no aggregation step runs.
C7_FailBeforeWork == [](C7_State) /\ [][C7_Step]_vars

\* A call that ended with the error of a response, its payload logged.
C7_Witness ==
    /\ pc = "failed"
    /\ fetchCalls = 1
    /\ HasPayload
    /\ logged = << res.errors[1] >>
    /\ thrown[1].class = "CustomError"

====
